---------------------------- MODULE Spec2Model ----------------------------
(***************************************************************************)
(* LLMChainBuilder and LLMChain (src/src/chain/llm_chain.rs).              *)
(*                                                                         *)
(* The builder accumulates five optional parts and build() turns them into *)
(* a chain.  A chain offers call / invoke / stream.  Each of the three is  *)
(* an async fn: it runs up to its next .await, is suspended there, and is  *)
(* resumed when the collaborator (model client, output parser) answers.    *)
(* Several invocations may be in flight on the same chain (&self), each of *)
(* them a task of the model.                                               *)
(*                                                                         *)
(* The collaborators (FormatPrompter, LLM, OutputParser) are trait objects *)
(* whose implementations live outside the chain: the prompter and the      *)
(* parsers are small doubles, the model client answers nondeterministically*)
(* and records the add_options calls made on it.                           *)
(***************************************************************************)
EXTENDS Naturals, Sequences, FiniteSets

\* Number of invocations that may be in flight on one chain.
NTasks == 2
\* Largest number of items a model stream produces before it ends.
MaxItems == 2

Tasks == 1..NTasks

-----------------------------------------------------------------------------
(* Option<T> and Result<T, E>                                              *)

None == <<>>
Some(x) == <<x>>
IsSome(o) == o # <<>>
Unwrap(o) == o[1]

Ok(v) == [ok |-> <<v>>, err |-> <<>>]
Err(e) == [ok |-> <<>>, err |-> <<e>>]
IsOk(r) == r.ok # <<>>
IsErr(r) == r.err # <<>>
OkVal(r) == r.ok[1]
ErrVal(r) == r.err[1]

-----------------------------------------------------------------------------
(* Values the callers and the collaborators supply                         *)

\* Strings that are transformed are sequences of characters.
Str_empty == <<>>
Str_abc == <<"a", "b", "c">>

\* The formatter of the chain's own test: "Mi nombre es: {nombre} ".
Prompters == {"nombre_template"}
\* Model clients.
Models == {"mock_llm"}
\* Values given to output_key.
OutputKeys == {"text", "answer"}
\* ChainCallOptions values given to options.
ChainCallOptionsSet == {[max_tokens |-> <<>>, temperature |-> <<2>>]}
\* Output parsers given to output_parser.
Parsers == {"upper_nonempty"}
\* PromptArgs of an invocation: with and without the variable.
PromptArgsSet == {[n \in {} |-> "luis"], [n \in {"nombre"} |-> "luis"]}
\* What the model client answers to generate.
Generations == {Str_empty, Str_abc}
TokenCounts == {7, 9}
GenerateResults == [generation : Generations, tokens : TokenCounts]
LLMErrors == {"llm_failed"}
GenerateResponses == {Ok(g) : g \in GenerateResults} \cup {Err(e) : e \in LLMErrors}
\* What a model stream yields: Result<StreamData, LLMError>.
StreamItems == {Ok("he"), Err("llm_failed")}

-----------------------------------------------------------------------------
(* Collaborators                                                           *)

\* ChainError, by kind, from the collaborators' errors (the ? operator and
\* map_err(ChainError::from) both convert through From).
ChainError_MissingObject(msg) == [kind |-> "MissingObject", detail |-> msg]
ChainError_from_PromptError(e) == [kind |-> "Format", detail |-> e]
ChainError_from_LLMError(e) == [kind |-> "Model", detail |-> e]
ChainError_from_OutputParserError(e) == [kind |-> "Parse", detail |-> e]

\* FormatPrompter::get_input_variables
get_input_variables(p) == <<"nombre">>

\* FormatPrompter::format_prompt: fails when a declared variable is missing.
format_prompt(p, args) ==
    IF \A i \in DOMAIN get_input_variables(p) :
           get_input_variables(p)[i] \in DOMAIN args
    THEN Ok([template |-> p, values |-> args])
    ELSE Err("missing_variable")

\* PromptValue::to_chat_messages
to_chat_messages(pv) ==
    << [role |-> "human",
        content |-> <<"Mi nombre es: ", pv.values["nombre"], " ">>] >>

\* ChainCallOptions::to_llm_options: every option that is set is carried
\* over to the model's CallOptions.
to_llm_options(o) ==
    [max_tokens |-> o.max_tokens, temperature |-> o.temperature,
     streaming_func |-> <<>>]

\* LLM::add_options on a recording model client.
add_options(client, llm_options) ==
    [client EXCEPT !.added_options = Append(@, llm_options)]

\* SimpleParser::parse: the input, unchanged.
SimpleParser_parse(s) == Ok(s)

UpperChar(c) ==
    CASE c = "a" -> "A"
      [] c = "b" -> "B"
      [] c = "c" -> "C"
      [] OTHER -> c

to_uppercase(s) == [i \in 1..Len(s) |-> UpperChar(s[i])]

\* A parser that uppercases its input and rejects an empty one.
UpperNonempty_parse(s) ==
    IF s = Str_empty THEN Err("empty_output") ELSE Ok(to_uppercase(s))

\* OutputParser::parse, dispatched on the parser the chain holds.
parse(parser, s) ==
    CASE parser = "simple" -> SimpleParser_parse(s)
      [] parser = "upper_nonempty" -> UpperNonempty_parse(s)

-----------------------------------------------------------------------------
(* State                                                                   *)

VARIABLES
    builder,      \* the LLMChainBuilder's five slots
    buildResult,  \* None while the builder accumulates; Some(what build() returned)
    tasks,        \* the invocations of call / invoke / stream on the chain
    lastOutputKey     \* history: the argument of the latest output_key(..) call

vars == <<builder, buildResult, tasks, lastOutputKey>>

\* A model client as handed to the builder: no options folded in yet.
NewClient(name) == [name |-> name, added_options |-> <<>>]

\* LLMChainBuilder::new
new ==
    [prompt |-> None, llm |-> None, options |-> None, output_key |-> None,
     output_parser |-> None]

\* A task that has not invoked anything yet.
IdleTask ==
    [pc |-> "idle", op |-> "none", args |-> None, messages |-> None,
     llm_response |-> None, result |-> None, steps |-> <<>>,
     produced |-> <<>>, source_ended |-> FALSE, observed |-> <<>>]

Init ==
    /\ builder = new
    /\ buildResult = None
    /\ tasks = [t \in Tasks |-> IdleTask]
    /\ lastOutputKey = None

Accumulating == buildResult = None
Built == IsSome(buildResult) /\ IsOk(Unwrap(buildResult))
\* The LLMChain build() returned.
Chain == OkVal(Unwrap(buildResult))

-----------------------------------------------------------------------------
(* LLMChainBuilder                                                         *)

options(o) ==
    /\ Accumulating
    /\ builder' = [builder EXCEPT !.options = Some(o)]
    /\ UNCHANGED <<buildResult, tasks, lastOutputKey>>

prompt(p) ==
    /\ Accumulating
    /\ builder' = [builder EXCEPT !.prompt = Some(p)]
    /\ UNCHANGED <<buildResult, tasks, lastOutputKey>>

llm(l) ==
    /\ Accumulating
    /\ builder' = [builder EXCEPT !.llm = Some(NewClient(l))]
    /\ UNCHANGED <<buildResult, tasks, lastOutputKey>>

output_key(k) ==
    /\ Accumulating
    /\ builder' = [builder EXCEPT !.output_key = Some(k)]
    /\ lastOutputKey' = Some(k)
    /\ UNCHANGED <<buildResult, tasks>>

output_parser(p) ==
    /\ Accumulating
    /\ builder' = [builder EXCEPT !.output_parser = Some(p)]
    /\ UNCHANGED <<buildResult, tasks, lastOutputKey>>

\* Mutant of build_llm: the options are dropped, add_options is never invoked.
build_llm_without_options(b) == Unwrap(b.llm)

\* The model client of the chain: the builder's, with the options folded in
\* when options were given.
build_llm(b) ==
    IF IsSome(b.options)
    THEN add_options(Unwrap(b.llm), to_llm_options(Unwrap(b.options)))
    ELSE Unwrap(b.llm)

\* Mutant of build_output_key: the key given to the builder is ignored.
build_output_key_ignored(b) == "output"

build_output_key(b) ==
    IF IsSome(b.output_key) THEN Unwrap(b.output_key) ELSE "output"

\* Mutant of build_output_parser: the default is not the identity parser.
build_output_parser_upper_default(b) ==
    IF IsSome(b.output_parser) THEN Unwrap(b.output_parser) ELSE "upper_nonempty"

build_output_parser(b) ==
    IF IsSome(b.output_parser) THEN Unwrap(b.output_parser) ELSE "simple"

\* Mutant of LLMChainBuilder_build: the llm is checked before the prompt.
LLMChainBuilder_build_llm_first(b) ==
    IF b.llm = None
    THEN Err(ChainError_MissingObject("LLM must be set"))
    ELSE IF b.prompt = None
    THEN Err(ChainError_MissingObject("Prompt must be set"))
    ELSE Ok([prompt |-> Unwrap(b.prompt),
             llm |-> build_llm(b),
             output_key |-> build_output_key(b),
             output_parser |-> build_output_parser(b)])

\* LLMChainBuilder::build, as a function of the builder it consumes.
LLMChainBuilder_build(b) ==
    IF b.prompt = None
    THEN Err(ChainError_MissingObject("Prompt must be set"))
    ELSE IF b.llm = None
    THEN Err(ChainError_MissingObject("LLM must be set"))
    ELSE Ok([prompt |-> Unwrap(b.prompt),
             llm |-> build_llm(b),
             output_key |-> build_output_key(b),
             output_parser |-> build_output_parser(b)])

\* build(self) consumes the builder: no setter runs after it.  The slots keep
\* the values build() was called with.
build ==
    /\ Accumulating
    /\ buildResult' = Some(LLMChainBuilder_build(builder))
    /\ UNCHANGED <<builder, tasks, lastOutputKey>>

-----------------------------------------------------------------------------
(* LLMChain                                                                *)

get_input_keys(chain) == get_input_variables(chain.prompt)

get_output_keys(chain) == <<chain.output_key>>

\* A task ends with the value its async fn returns.
Return(task, r) == [task EXCEPT !.pc = "done", !.result = Some(r)]

\* self.prompt.format_prompt(input_variables.clone())? followed by the
\* dispatch of `request` (generate or stream) to the model client; the task
\* is then suspended at `await_pc`.
format_and_dispatch(chain, task, op, args, request, await_pc) ==
    LET formatted == format_prompt(chain.prompt, args)
        started == [task EXCEPT !.op = op, !.args = Some(args),
                                !.steps = <<"format_prompt">>]
    IN  IF IsErr(formatted)
        THEN Return(started, Err(ChainError_from_PromptError(ErrVal(formatted))))
        ELSE [started EXCEPT
                 !.pc = await_pc,
                 !.messages = Some(to_chat_messages(OkVal(formatted))),
                 !.steps = Append(@, request)]

\* call, up to the await of self.llm.generate(..).
call_start(chain, task, args) ==
    format_and_dispatch(chain, task, "call", args, "generate", "await_generate")

\* Mutant of call_generated: a failed generate is dispatched again.
call_generated_retrying(chain, task, response) ==
    IF IsErr(response)
    THEN [task EXCEPT !.steps = Append(@, "generate")]
    ELSE [task EXCEPT !.pc = "await_parse",
                      !.llm_response = Some(response),
                      !.steps = Append(@, "parse")]

\* call, from the answer of generate up to the await of
\* self.output_parser.parse(&output.generation).
call_generated(chain, task, response) ==
    IF IsErr(response)
    THEN Return([task EXCEPT !.llm_response = Some(response)],
                Err(ChainError_from_LLMError(ErrVal(response))))
    ELSE [task EXCEPT !.pc = "await_parse",
                      !.llm_response = Some(response),
                      !.steps = Append(@, "parse")]

\* Mutant of call_parsed: a new result is built around the parsed text, the
\* model's other fields are lost.
call_parsed_new_result(chain, task) ==
    LET output == OkVal(Unwrap(task.llm_response))
        parsed == parse(chain.output_parser, output.generation)
    IN  IF IsErr(parsed)
        THEN Return(task, Err(ChainError_from_OutputParserError(ErrVal(parsed))))
        ELSE Return(task, Ok([generation |-> OkVal(parsed), tokens |-> 0]))

\* call, from the answer of parse to its return: output.generation is
\* replaced, the rest of output is returned as the model gave it.
call_parsed(chain, task) ==
    LET output == OkVal(Unwrap(task.llm_response))
        parsed == parse(chain.output_parser, output.generation)
    IN  IF IsErr(parsed)
        THEN Return(task, Err(ChainError_from_OutputParserError(ErrVal(parsed))))
        ELSE Return(task, Ok([output EXCEPT !.generation = OkVal(parsed)]))

\* invoke, up to the await of self.llm.generate(..).
invoke_start(chain, task, args) ==
    format_and_dispatch(chain, task, "invoke", args, "generate", "await_generate")

\* Mutant of invoke_generated: invoke applies the output parser as call does.
invoke_generated_parsing(chain, task, response) ==
    IF IsErr(response)
    THEN Return([task EXCEPT !.llm_response = Some(response)],
                Err(ChainError_from_LLMError(ErrVal(response))))
    ELSE LET parsed == parse(chain.output_parser, OkVal(response).generation) IN
         IF IsErr(parsed)
         THEN Return([task EXCEPT !.llm_response = Some(response)],
                     Err(ChainError_from_OutputParserError(ErrVal(parsed))))
         ELSE Return([task EXCEPT !.llm_response = Some(response)],
                     Ok(OkVal(parsed)))

\* invoke, from the answer of generate to its return.
invoke_generated(chain, task, response) ==
    IF IsErr(response)
    THEN Return([task EXCEPT !.llm_response = Some(response)],
                Err(ChainError_from_LLMError(ErrVal(response))))
    ELSE Return([task EXCEPT !.llm_response = Some(response)],
                Ok(OkVal(response).generation))

\* stream, up to the await of self.llm.stream(..).
stream_start(chain, task, args) ==
    format_and_dispatch(chain, task, "stream", args, "stream", "await_stream")

\* Mutant of stream_established: a failed establishment is handed to the
\* consumer as the first item of a returned stream.
stream_established_error_as_item(chain, task, response) ==
    IF IsErr(response)
    THEN [task EXCEPT !.pc = "streaming",
                      !.llm_response = Some(response),
                      !.result = Some(Ok("mapped_stream")),
                      !.observed = <<Err(ChainError_from_LLMError(ErrVal(response)))>>]
    ELSE [task EXCEPT !.pc = "streaming",
                      !.llm_response = Some(response),
                      !.result = Some(Ok("mapped_stream"))]

\* stream, from the answer of llm.stream to its return: the handle on the
\* mapped stream, or the model's error.
stream_established(chain, task, response) ==
    IF IsErr(response)
    THEN Return([task EXCEPT !.llm_response = Some(response)],
                Err(ChainError_from_LLMError(ErrVal(response))))
    ELSE [task EXCEPT !.pc = "streaming",
                      !.llm_response = Some(response),
                      !.result = Some(Ok("mapped_stream"))]

\* llm_stream.map_err(ChainError::from) on one item: an Ok item as it is, an
\* Err item with its error converted.
map_err_ChainError_from(item) ==
    IF IsOk(item) THEN item ELSE Err(ChainError_from_LLMError(ErrVal(item)))

\* Mutant of mapped_stream_poll: the stream ends at the first failed item
\* (as a try_collect or a take-while-ok adapter would make it).
mapped_stream_poll_ending_on_error(task, polled) ==
    IF polled = None
    THEN [task EXCEPT !.source_ended = TRUE, !.pc = "done"]
    ELSE IF IsErr(Unwrap(polled))
    THEN [task EXCEPT
             !.pc = "done",
             !.produced = Append(@, Unwrap(polled)),
             !.observed = Append(@, map_err_ChainError_from(Unwrap(polled)))]
    ELSE [task EXCEPT
             !.produced = Append(@, Unwrap(polled)),
             !.observed = Append(@, Unwrap(polled))]

\* One poll of the mapped stream: it polls the model's stream once and hands
\* on what that yields; `polled` is Some(item), or None at the stream's end.
mapped_stream_poll(task, polled) ==
    IF polled = None
    THEN [task EXCEPT !.source_ended = TRUE, !.pc = "done"]
    ELSE [task EXCEPT
             !.produced = Append(@, Unwrap(polled)),
             !.observed = Append(@, map_err_ChainError_from(Unwrap(polled)))]

\* Mutant of call: the builder's options are folded into the model client at
\* every call instead of once at build time.
call_folding_options(t, args) ==
    /\ Built
    /\ tasks[t].pc = "idle"
    /\ tasks' = [tasks EXCEPT ![t] = call_start(Chain, @, args)]
    /\ buildResult' =
          IF IsSome(builder.options)
          THEN Some(Ok([Chain EXCEPT !.llm =
                   add_options(@, to_llm_options(Unwrap(builder.options)))]))
          ELSE buildResult
    /\ UNCHANGED <<builder, lastOutputKey>>

call(t, args) ==
    /\ Built
    /\ tasks[t].pc = "idle"
    /\ tasks' = [tasks EXCEPT ![t] = call_start(Chain, @, args)]
    /\ UNCHANGED <<builder, buildResult, lastOutputKey>>

call_generate_ready(t, response) ==
    /\ tasks[t].pc = "await_generate"
    /\ tasks[t].op = "call"
    /\ tasks' = [tasks EXCEPT ![t] = call_generated(Chain, @, response)]
    /\ UNCHANGED <<builder, buildResult, lastOutputKey>>

call_parse_ready(t) ==
    /\ tasks[t].pc = "await_parse"
    /\ tasks' = [tasks EXCEPT ![t] = call_parsed(Chain, @)]
    /\ UNCHANGED <<builder, buildResult, lastOutputKey>>

invoke(t, args) ==
    /\ Built
    /\ tasks[t].pc = "idle"
    /\ tasks' = [tasks EXCEPT ![t] = invoke_start(Chain, @, args)]
    /\ UNCHANGED <<builder, buildResult, lastOutputKey>>

invoke_generate_ready(t, response) ==
    /\ tasks[t].pc = "await_generate"
    /\ tasks[t].op = "invoke"
    /\ tasks' = [tasks EXCEPT ![t] = invoke_generated(Chain, @, response)]
    /\ UNCHANGED <<builder, buildResult, lastOutputKey>>

stream(t, args) ==
    /\ Built
    /\ tasks[t].pc = "idle"
    /\ tasks' = [tasks EXCEPT ![t] = stream_start(Chain, @, args)]
    /\ UNCHANGED <<builder, buildResult, lastOutputKey>>

stream_ready(t, response) ==
    /\ tasks[t].pc = "await_stream"
    /\ tasks' = [tasks EXCEPT ![t] = stream_established(Chain, @, response)]
    /\ UNCHANGED <<builder, buildResult, lastOutputKey>>

\* The consumer polls the stream it was handed; the model's stream yields an
\* item, or ends (it ends at the latest after MaxItems items).
poll_next(t, polled) ==
    /\ tasks[t].pc = "streaming"
    /\ polled # None => Len(tasks[t].produced) < MaxItems
    /\ tasks' = [tasks EXCEPT ![t] = mapped_stream_poll(@, polled)]
    /\ UNCHANGED <<builder, buildResult, lastOutputKey>>

StreamResponses == {Ok("llm_stream")} \cup {Err(e) : e \in LLMErrors}
Polled == {None} \cup {Some(i) : i \in StreamItems}

Next ==
    \/ \E o \in ChainCallOptionsSet : options(o)
    \/ \E p \in Prompters : prompt(p)
    \/ \E l \in Models : llm(l)
    \/ \E k \in OutputKeys : output_key(k)
    \/ \E p \in Parsers : output_parser(p)
    \/ build
    \/ \E t \in Tasks, args \in PromptArgsSet : call(t, args)
    \/ \E t \in Tasks, r \in GenerateResponses : call_generate_ready(t, r)
    \/ \E t \in Tasks : call_parse_ready(t)
    \/ \E t \in Tasks, args \in PromptArgsSet : invoke(t, args)
    \/ \E t \in Tasks, r \in GenerateResponses : invoke_generate_ready(t, r)
    \/ \E t \in Tasks, args \in PromptArgsSet : stream(t, args)
    \/ \E t \in Tasks, r \in StreamResponses : stream_ready(t, r)
    \/ \E t \in Tasks, i \in Polled : poll_next(t, i)

Spec == Init /\ [][Next]_vars

-----------------------------------------------------------------------------
(* Vocabulary of the properties                                            *)

Started(t) == tasks[t].pc # "idle"
Done(t) == tasks[t].pc = "done"
Returned(t) == IsSome(tasks[t].result)
ReturnedOk(t) == Returned(t) /\ IsOk(Unwrap(tasks[t].result))
ReturnedErr(t, kind) ==
    /\ Returned(t)
    /\ IsErr(Unwrap(tasks[t].result))
    /\ ErrVal(Unwrap(tasks[t].result)).kind = kind
\* The model answered the task's request, and answered Ok.
Answered(t) == IsSome(tasks[t].llm_response)
AnsweredOk(t) == Answered(t) /\ IsOk(Unwrap(tasks[t].llm_response))
\* The GenerateResult the model returned to the task.
ModelOutput(t) == OkVal(Unwrap(tasks[t].llm_response))
\* The value a task's call or invoke returned.
Returns(t) == OkVal(Unwrap(tasks[t].result))
Step(t, name) == \E i \in DOMAIN tasks[t].steps : tasks[t].steps[i] = name
StepCount(t, name) ==
    Cardinality({i \in DOMAIN tasks[t].steps : tasks[t].steps[i] = name})
IsPrefix(s, full) == Len(s) <= Len(full) /\ \A i \in DOMAIN s : s[i] = full[i]
\* Requests dispatched to the model client so far.
Dispatched == \E t \in Tasks : Step(t, "generate") \/ Step(t, "stream")
BuildError == ErrVal(Unwrap(buildResult))

-----------------------------------------------------------------------------
\* C1: build() fails with MissingObject("Prompt must be set") whenever the
\* prompt is missing, with MissingObject("LLM must be set") whenever the prompt
\* is present and the llm is missing, and succeeds whenever both are present,
\* whatever the other three slots hold; the part an error names is missing.
C1_BuildOutcome ==
    IsSome(buildResult) =>
        LET r == Unwrap(buildResult) IN
        /\ builder.prompt = None =>
              IsErr(r) /\ ErrVal(r) = ChainError_MissingObject("Prompt must be set")
        /\ builder.prompt # None /\ builder.llm = None =>
              IsErr(r) /\ ErrVal(r) = ChainError_MissingObject("LLM must be set")
        /\ builder.prompt # None /\ builder.llm # None => IsOk(r)
        /\ IsErr(r) =>
              /\ ErrVal(r).kind = "MissingObject"
              /\ ErrVal(r).detail = "Prompt must be set" => builder.prompt = None
              /\ ErrVal(r).detail = "LLM must be set" => builder.llm = None

\* build() failed for the llm alone, with every other slot set.
C1_Witness ==
    /\ IsSome(buildResult)
    /\ IsErr(Unwrap(buildResult))
    /\ BuildError.detail = "LLM must be set"
    /\ builder.prompt # None
    /\ builder.output_key # None
    /\ builder.options # None
    /\ builder.output_parser # None

\* C2: a successful call returns the model's result with generation replaced
\* by parser.parse(generation); a successful invoke returns the model's
\* generation itself and has not invoked the parser.
C2_CallParsesInvokeDoesNot ==
    \A t \in Tasks :
        /\ tasks[t].op = "call" /\ Done(t) /\ ReturnedOk(t) =>
              /\ AnsweredOk(t)
              /\ Step(t, "parse")
              /\ IsOk(parse(Chain.output_parser, ModelOutput(t).generation))
              /\ Returns(t).generation =
                     OkVal(parse(Chain.output_parser, ModelOutput(t).generation))
        /\ tasks[t].op = "invoke" /\ Done(t) /\ AnsweredOk(t) =>
              /\ ReturnedOk(t)
              /\ Returns(t) = ModelOutput(t).generation
              /\ ~Step(t, "parse")

\* With the uppercasing parser and the model answering "abc", a call returned
\* "ABC" and an invoke returned "abc".
C2_Witness ==
    /\ Built
    /\ Chain.output_parser = "upper_nonempty"
    /\ \E t, u \in Tasks :
          /\ tasks[t].op = "call" /\ ReturnedOk(t)
          /\ ModelOutput(t).generation = Str_abc
          /\ Returns(t).generation = <<"A", "B", "C">>
          /\ tasks[u].op = "invoke" /\ ReturnedOk(u)
          /\ ModelOutput(u).generation = Str_abc
          /\ Returns(u) = Str_abc

\* C3: the result of a successful call has the fields of the model's result,
\* and every field other than generation holds the value the model gave it.
C3_MetadataPreserved ==
    \A t \in Tasks :
        tasks[t].op = "call" /\ Done(t) /\ ReturnedOk(t) =>
            /\ DOMAIN Returns(t) = DOMAIN ModelOutput(t)
            /\ \A f \in DOMAIN ModelOutput(t) \ {"generation"} :
                   Returns(t)[f] = ModelOutput(t)[f]

\* A call whose parser changed the generation returned the model's 7 tokens.
C3_Witness ==
    \E t \in Tasks :
        /\ tasks[t].op = "call" /\ ReturnedOk(t)
        /\ Returns(t).generation # ModelOutput(t).generation
        /\ ModelOutput(t).tokens = 7
        /\ Returns(t).tokens = 7

\* The add_options calls recorded by the model client: the chain's once
\* build() returned a chain, and otherwise the one in the builder's slot (a
\* failing build() returns at its first ? and drops the client as the slot
\* held it).
AddedOptions ==
    IF Built THEN Chain.llm.added_options
    ELSE IF IsSome(builder.llm)
         THEN Unwrap(builder.llm).added_options
         ELSE <<>>

BuildFailed == IsSome(buildResult) /\ IsErr(Unwrap(buildResult))

\* C4 as stated: once build() has run on a builder that was given options
\* and a model client, that client's add_options has been invoked exactly
\* once, with the converted options, whatever else the builder was given.
C4_AsStated ==
    IsSome(buildResult) /\ IsSome(builder.options) /\ IsSome(builder.llm) =>
        AddedOptions = <<to_llm_options(Unwrap(builder.options))>>

C4_Folded ==
    /\ Accumulating => AddedOptions = <<>>
    /\ Built /\ IsSome(builder.options) =>
          AddedOptions = <<to_llm_options(Unwrap(builder.options))>>
    /\ Built /\ builder.options = None => AddedOptions = <<>>
    /\ BuildFailed => AddedOptions = <<>>
    /\ Dispatched => Built

\* C4, amended: when build() succeeds, the model client's add_options has
\* been invoked exactly once, with the converted options, if options were
\* given to the builder, and never if none were given; when build() fails
\* (prompt or llm missing) add_options is never invoked, options given or
\* not; add_options is invoked only while no generate or stream has been
\* dispatched, and not by call, invoke or stream.
C4_OptionsFolding ==
    /\ []C4_Folded
    /\ [][AddedOptions' # AddedOptions => ~Dispatched /\ ~Dispatched']_vars

\* A chain built with options has dispatched a generate and a stream.
C4_Witness ==
    /\ Built
    /\ IsSome(builder.options)
    /\ Len(Chain.llm.added_options) = 1
    /\ Chain.llm.added_options[1].temperature = <<2>>
    /\ \E t, u \in Tasks : Step(t, "generate") /\ Step(u, "stream")

\* What the consumer of a stream has to observe for what the model's stream
\* produced.
Lifted(item) ==
    IF IsOk(item) THEN item
    ELSE Err([kind |-> "Model", detail |-> ErrVal(item)])

\* C5: the items the consumer of a returned stream has observed are the items
\* the model's stream has produced, as many and in the same order, an Ok item
\* as it is and an Err item as a Model error, and the consumer sees the stream
\* end exactly when the model's stream ended.
C5_StreamTransparent ==
    \A t \in Tasks :
        tasks[t].op = "stream" /\ ReturnedOk(t) =>
            /\ Len(tasks[t].observed) = Len(tasks[t].produced)
            /\ \A i \in DOMAIN tasks[t].produced :
                   tasks[t].observed[i] = Lifted(tasks[t].produced[i])
            /\ Done(t) <=> tasks[t].source_ended

\* The model's stream produced [Ok(i1), Err(e)] and ended; the consumer saw
\* [Ok(i1), Err(Model(e))] and the end.
C5_Witness ==
    \E t \in Tasks :
        /\ tasks[t].op = "stream" /\ Done(t) /\ ReturnedOk(t)
        /\ tasks[t].produced = <<Ok("he"), Err("llm_failed")>>
        /\ tasks[t].observed =
               <<Ok("he"), Err([kind |-> "Model", detail |-> "llm_failed"])>>

\* C6: stream returns its handle only after the prompt was formatted and the
\* model's stream established; a formatting failure returns a Format error
\* without requesting the model's stream, a failed establishment returns a
\* Model error, and in both cases no handle and no item is produced.
C6_StreamSetupFailures ==
    \A t \in Tasks :
        tasks[t].op = "stream" =>
            /\ IsErr(format_prompt(Chain.prompt, Unwrap(tasks[t].args))) =>
                  /\ ReturnedErr(t, "Format")
                  /\ ~Step(t, "stream")
            /\ Answered(t) /\ ~AnsweredOk(t) => ReturnedErr(t, "Model")
            /\ Returned(t) /\ ~ReturnedOk(t) =>
                  /\ Done(t)
                  /\ tasks[t].produced = <<>>
                  /\ tasks[t].observed = <<>>
                  /\ ReturnedErr(t, "Format") \/ ReturnedErr(t, "Model")
            /\ ReturnedOk(t) =>
                  /\ tasks[t].steps = <<"format_prompt", "stream">>
                  /\ IsOk(format_prompt(Chain.prompt, Unwrap(tasks[t].args)))
                  /\ AnsweredOk(t)
            /\ tasks[t].observed # <<>> \/ tasks[t].produced # <<>> => ReturnedOk(t)

\* One stream failed at formatting, another at the model's establishment.
C6_Witness ==
    \E t, u \in Tasks :
        /\ tasks[t].op = "stream" /\ ReturnedErr(t, "Format")
        /\ tasks[u].op = "stream" /\ ReturnedErr(u, "Model")

C7_OutputKeys ==
    Built =>
        /\ Len(get_output_keys(Chain)) = 1
        /\ lastOutputKey = None => get_output_keys(Chain) = <<"output">>
        /\ lastOutputKey # None => get_output_keys(Chain) = <<Unwrap(lastOutputKey)>>

\* C7: get_output_keys() of a built chain is a list of one element, "output"
\* when output_key was never called and the argument of the latest output_key
\* call otherwise, and no step of call, invoke or stream changes it.
C7_DefaultOutputKey ==
    /\ []C7_OutputKeys
    /\ [][Built => get_output_keys(Chain)' = get_output_keys(Chain)]_vars

\* A chain built without output_key has finished an invocation; its key is
\* "output".
C7_Witness ==
    /\ Built
    /\ lastOutputKey = None
    /\ get_output_keys(Chain) = <<"output">>
    /\ \E t \in Tasks : Done(t) /\ ReturnedOk(t)

\* C8: on a chain built without output_parser, a call whose model answered
\* {generation: s} returns generation s and never a Parse error; on a chain
\* built with an output_parser, call applies that parser.
C8_DefaultParserIdentity ==
    Built =>
        /\ builder.output_parser = None =>
              \A t \in Tasks :
                  tasks[t].op = "call" =>
                      /\ ~ReturnedErr(t, "Parse")
                      /\ Done(t) /\ AnsweredOk(t) =>
                            /\ ReturnedOk(t)
                            /\ Returns(t).generation = ModelOutput(t).generation
        /\ builder.output_parser # None =>
              /\ Chain.output_parser = Unwrap(builder.output_parser)
              /\ \A t \in Tasks :
                     tasks[t].op = "call" /\ Done(t) /\ AnsweredOk(t) =>
                         LET p == parse(Unwrap(builder.output_parser),
                                        ModelOutput(t).generation)
                         IN  IF IsOk(p)
                             THEN ReturnedOk(t) /\ Returns(t).generation = OkVal(p)
                             ELSE ReturnedErr(t, "Parse")

\* On a chain built without a parser, calls returned "abc" and "" as the
\* model generated them.
C8_Witness ==
    /\ Built
    /\ builder.output_parser = None
    /\ \E t, u \in Tasks :
          /\ tasks[t].op = "call" /\ ReturnedOk(t)
          /\ ModelOutput(t).generation = Str_abc
          /\ Returns(t).generation = Str_abc
          /\ tasks[u].op = "call" /\ ReturnedOk(u)
          /\ ModelOutput(u).generation = Str_empty
          /\ Returns(u).generation = Str_empty

\* An invocation run alone on `chain`: every step in turn, with the answers
\* the collaborators gave to this invocation.
RunAlone(chain, op, args, response, produced) ==
    LET formatted == format_prompt(chain.prompt, args) IN
    IF IsErr(formatted)
    THEN [result |-> Err([kind |-> "Format", detail |-> ErrVal(formatted)]),
          observed |-> <<>>]
    ELSE IF IsErr(response)
    THEN [result |-> Err([kind |-> "Model", detail |-> ErrVal(response)]),
          observed |-> <<>>]
    ELSE IF op = "stream"
    THEN [result |-> Ok("mapped_stream"),
          observed |-> [i \in DOMAIN produced |-> Lifted(produced[i])]]
    ELSE IF op = "invoke"
    THEN [result |-> Ok(OkVal(response).generation), observed |-> <<>>]
    ELSE LET parsed == parse(chain.output_parser, OkVal(response).generation) IN
         IF IsErr(parsed)
         THEN [result |-> Err([kind |-> "Parse", detail |-> ErrVal(parsed)]),
               observed |-> <<>>]
         ELSE [result |-> Ok([generation |-> OkVal(parsed),
                              tokens |-> OkVal(response).tokens]),
               observed |-> <<>>]

\* What the collaborators answered to a finished task: the model's answer, or
\* any answer when the task never asked.
ResponseTo(t) ==
    IF Answered(t) THEN Unwrap(tasks[t].llm_response) ELSE Err("not_asked")

C9_AsIfAlone ==
    \A t \in Tasks :
        Done(t) =>
            LET alone == RunAlone(Chain, tasks[t].op, Unwrap(tasks[t].args),
                                  ResponseTo(t), tasks[t].produced)
            IN  /\ Unwrap(tasks[t].result) = alone.result
                /\ tasks[t].observed = alone.observed

\* C9: once built, the chain (prompt, model client and its options, output
\* key, parser) never changes, and under every interleaving of invocations
\* each finished invocation has the result it has when run alone with its own
\* args and the answers to its own requests.
C9_ConcurrentIndependence ==
    /\ []C9_AsIfAlone
    /\ [][Built => buildResult' = buildResult]_vars

\* A call finished with its own model answer while another call on the same
\* chain, with a different model answer, is suspended at its parser.
C9_Witness ==
    \E t, u \in Tasks :
        /\ t # u
        /\ tasks[t].op = "call" /\ Done(t) /\ ReturnedOk(t)
        /\ Returns(t).tokens = ModelOutput(t).tokens
        /\ tasks[u].op = "call" /\ tasks[u].pc = "await_parse"
        /\ ModelOutput(t) # ModelOutput(u)

\* The steps of call and of invoke, in order.
StepsOf(op) ==
    IF op = "call" THEN <<"format_prompt", "generate", "parse">>
    ELSE <<"format_prompt", "generate">>

\* C10: a call or an invoke runs format_prompt, generate and (call only)
\* parse in this order, each at most once and only after the earlier ones
\* succeeded, and returns the error of the first step that failed: Format
\* with nothing dispatched, Model with the parser not invoked, Parse.
C10_StepOrderFailFast ==
    \A t \in Tasks :
        tasks[t].op \in {"call", "invoke"} =>
            LET formatted == format_prompt(Chain.prompt, Unwrap(tasks[t].args)) IN
            /\ IsPrefix(tasks[t].steps, StepsOf(tasks[t].op))
            /\ StepCount(t, "generate") <= 1
            /\ Step(t, "generate") <=> IsOk(formatted)
            /\ Step(t, "parse") <=> tasks[t].op = "call" /\ AnsweredOk(t)
            /\ IsErr(formatted) => ReturnedErr(t, "Format")
            /\ Answered(t) /\ ~AnsweredOk(t) => ReturnedErr(t, "Model")
            /\ ReturnedErr(t, "Format") => tasks[t].steps = <<"format_prompt">>
            /\ ReturnedErr(t, "Model") =>
                  /\ tasks[t].steps = <<"format_prompt", "generate">>
                  /\ Answered(t) /\ ~AnsweredOk(t)
            /\ ReturnedErr(t, "Parse") =>
                  /\ tasks[t].steps = <<"format_prompt", "generate", "parse">>
                  /\ IsErr(parse(Chain.output_parser, ModelOutput(t).generation))
            /\ Returned(t) /\ ~ReturnedOk(t) =>
                  \/ ReturnedErr(t, "Format")
                  \/ ReturnedErr(t, "Model")
                  \/ ReturnedErr(t, "Parse")

\* A call failed at the parser and an invoke failed at the model.
C10_Witness ==
    \E t, u \in Tasks :
        /\ tasks[t].op = "call" /\ ReturnedErr(t, "Parse")
        /\ tasks[u].op = "invoke" /\ ReturnedErr(u, "Model")

=============================================================================
